---- MODULE Spec2Model ----
(***************************************************************************)
(* State-machine model of the audiobooksync matching and synchronisation   *)
(* engine: the three tables of src/models.py, SyncWorker (sync/worker.py), *)
(* BookMatcher (sync/matcher.py) and the scheduling of the periodic pass   *)
(* (sync/scheduler.py, ui/app.py).                                         *)
(*                                                                         *)
(* A coroutine runs without interruption between two awaits on a client    *)
(* call, so one action is the code from the return of one client call to   *)
(* the next client call (or to the return of the coroutine).  What a       *)
(* client call answers, and whether a commit succeeds, is chosen by the    *)
(* environment.                                                            *)
(***************************************************************************)
EXTENDS Integers, Sequences, FiniteSets, TLC

\* ------------------------------------------------------------- bounds
\* Passes started in one behaviour (rows of sync_jobs).
MaxPasses == 2
\* Operations of the matcher started in one behaviour of SpecMatcher.
MaxMatcherOps == 3
\* Operations (passes, calls of the matcher) started in one behaviour of SpecAll.
MaxOpsAll == 2
\* Coroutine slots for passes that are in flight at the same time.
MaxConcurrent == 2
\* Commits that fail in one behaviour of SpecStoreFault.
MaxStoreFaults == 1
\* Coroutine slots for matcher operations that are in flight at the same time.
MaxMatchers == 2

\* ---------------------------------------------------------- constants
\* APScheduler's default for a job added without max_instances.
MaxInstances == 1
\* BookMatcher.MIN_FUZZY_SCORE
MIN_FUZZY_SCORE == 80

Null == "NULL"
\* A DateTime column holds NoTime (NULL) or what datetime.utcnow() returned,
\* which is held as the pass and the statement that read the clock.
NoTime == [pass |-> 0, at |-> "never"]
UtcNow(pass, at) == [pass |-> pass, at |-> at]

Platforms == {"hardcovers", "storygraph"}
LibraryLists == {<<>>, <<"L1">>, <<"L1", "L2">>}
ItemIds == {"a", "b"}
ItemLists == {<<>>, <<"a">>, <<"a", "b">>}
\* item.get("isbn", ""): item a carries an ISBN, item b none.
ItemIsbn(item) == IF item = "a" THEN "isbn-a" ELSE ""

\* What abs.get_progress answers: a fault, None, or userMediaProgress[0].
ProgressAnswers ==
    { [kind |-> "raise"], [kind |-> "none"],
      [kind |-> "data", progress |-> 50, duration |-> 100, isFinished |-> FALSE],
      [kind |-> "data", progress |-> 50, duration |-> 0, isFinished |-> FALSE] }

\* What an inconsistent upstream answers besides: a progress below zero or
\* beyond the duration, a duration below zero.
OddProgressAnswers ==
    { [kind |-> "data", progress |-> -10, duration |-> 100, isFinished |-> FALSE],
      [kind |-> "data", progress |-> 150, duration |-> 100, isFinished |-> FALSE],
      [kind |-> "data", progress |-> -50, duration |-> -100, isFinished |-> FALSE] }

VARIABLES
    books,          \* table audiobooks: sequence of rows, id = index
    mappings,       \* table book_mappings: sequence of rows, id = index
    jobs,           \* table sync_jobs: sequence of rows, id = index
    run,            \* run_periodic_sync coroutines, by slot
    scheduler,      \* SyncScheduler.scheduler: [running, jobstore]
    started,        \* startup_event has run
    canSync,        \* can_run_sync(settings): fixed by the environment
    storeFaultsLeft, \* commits the environment may still fail
    opsLeft,        \* operations (passes, calls of the matcher) still to start
    match,          \* BookMatcher coroutines (match_book_on_platform,
                    \* match_all_books), by slot
    resolved,       \* history: the first match match_book_on_platform
                    \* returned for the (book, platform) it last matched
    overlap,        \* callers start an operation while another is suspended
    oddProgress,    \* the Audiobookshelf instance may answer OddProgressAnswers
    oddResults      \* a platform search may answer OddSearchAnswers

vars == <<books, mappings, jobs, run, scheduler, started, canSync,
          storeFaultsLeft, match, resolved, overlap, oddProgress, oddResults, opsLeft>>

PassSlots == 1..MaxConcurrent
Active == {"libraries", "items", "progress", "update"}
MatcherSlots == 1..MaxMatchers
MatchActive == {"isbn", "search"}

IdlePass ==
    [pc |-> "idle", job |-> 0, libs |-> <<>>, li |-> 0, items |-> <<>>,
     ii |-> 0, book |-> 0, maps |-> <<>>, mi |-> 0, succ |-> 0, att |-> <<>>,
     calls |-> <<>>, args |-> <<>>, synced |-> 0, failed |-> 0, total |-> 0, errors |-> <<>>,
     ret |-> Null, syncRet |-> Null, fault |-> Null, sf |-> 0, matched |-> {},
     data |-> [kind |-> "none"]]

\* ------------------------------------------------------------ models.py
NewAudioBook(item) ==
    [audiobookshelf_id |-> item, isbn |-> ItemIsbn(item),
     current_progress |-> 0, total_duration |-> 0, is_finished |-> FALSE,
     last_synced_at |-> NoTime]

NewSyncJob(job_type, total_items) ==
    [job_type |-> job_type, status |-> "running", total_items |-> total_items,
     processed_items |-> 0, error_message |-> Null, completed_at |-> NoTime]

\* ------------------------------------------------- SyncWorker.update_sync_job
Terminal == {"completed", "failed"}

\* update_sync_job with a default status of "pending" instead of "running".
UpdatedJobDefaultPending(job, id, processed_items, status, error_message) ==
    [job EXCEPT !.processed_items = processed_items,
                !.status = IF status = "running" THEN "pending" ELSE status,
                !.error_message = error_message,
                !.completed_at = IF status \in Terminal
                                 THEN UtcNow(id, "update_sync_job") ELSE @]

UpdatedJob(job, id, processed_items, status, error_message) ==
    [job EXCEPT !.processed_items = processed_items,
                !.status = status,
                !.error_message = error_message,
                !.completed_at = IF status \in Terminal
                                 THEN UtcNow(id, "update_sync_job") ELSE @]

(***************************************************************************)
(* The code of run_periodic_sync after a client call has answered, as      *)
(* functions of S = [r, books, jobs, n, f]: r the coroutine's locals,      *)
(* n the commits done in this step and f those that failed.  cs[k] says    *)
(* whether the k-th commit of the step succeeds.  A failed commit raises   *)
(* and stores nothing.                                                     *)
(***************************************************************************)
MaxCommitsPerStep == 2 + 1 + 1 + 1 + 1

CommitOk(S, cs) == cs[S.n + 1]

Committed(S, cs) ==
    [S EXCEPT !.n = @ + 1, !.f = IF CommitOk(S, cs) THEN @ ELSE @ + 1]

\* update_sync_job(db, job, processed, status, error): S after it, commit included.
UpdateSyncJob(S, cs, processed, status, err) ==
    LET T == Committed(S, cs)
    IN  IF CommitOk(S, cs)
        THEN [T EXCEPT !.jobs[S.r.job] = UpdatedJob(@, S.r.job, processed, status, err)]
        ELSE T

\* The handler of the outer try returning its result without update_sync_job.
FatalWithoutUpdate(S, cs) ==
    [S EXCEPT !.r.pc = "done",
              !.r.ret = [synced_count |-> 0, failed_count |-> 0,
                         total_books |-> Null, errors |-> <<"fatal">>]]

\* The handler of the outer try closing the job as completed, without a message.
FatalMarksCompleted(S, cs) ==
    LET U == UpdateSyncJob(S, cs, 0, "completed", Null)
    IN  IF CommitOk(S, cs)
        THEN [U EXCEPT !.r.pc = "done",
                       !.r.ret = [synced_count |-> 0, failed_count |-> 0,
                                  total_books |-> Null, errors |-> <<"fatal">>]]
        ELSE [U EXCEPT !.r.pc = "raised"]

\* worker.py 284-292: the handler of the outer try.
Fatal(S, cs) ==
    LET U == UpdateSyncJob(S, cs, 0, "failed", "fatal")
    IN  IF CommitOk(S, cs)
        THEN [U EXCEPT !.r.pc = "done",
                       !.r.ret = [synced_count |-> 0, failed_count |-> 0,
                                  total_books |-> Null, errors |-> <<"fatal">>]]
        ELSE [U EXCEPT !.r.pc = "raised"]

\* An empty list of libraries treated as a fault of the enumeration.
NoLibrariesIsFatal(S, cs) == Fatal(S, cs)

\* worker.py 203-206: get_user_libraries answered an empty list.
NoLibraries(S, cs) ==
    LET U == UpdateSyncJob(S, cs, 0, "completed", Null)
    IN  IF CommitOk(S, cs)
        THEN [U EXCEPT !.r.pc = "done",
                       !.r.ret = [synced_count |-> 0, failed_count |-> 0,
                                  total_books |-> Null, errors |-> <<>>]]
        ELSE Fatal(U, cs)

\* The pass closing its job with a summary of the errors it recorded.
FinishWithErrorSummary(S, cs) ==
    LET U == UpdateSyncJob(S, cs, S.r.synced + S.r.failed, "completed",
                           IF S.r.errors = <<>> THEN Null ELSE "errors")
    IN  IF CommitOk(S, cs)
        THEN [U EXCEPT !.r.pc = "done",
                       !.r.ret = [synced_count |-> S.r.synced,
                                  failed_count |-> S.r.failed,
                                  total_books |-> S.r.total,
                                  errors |-> S.r.errors]]
        ELSE Fatal(U, cs)

\* worker.py 269-282: after the last library.
Finish(S, cs) ==
    LET U == UpdateSyncJob(S, cs, S.r.synced + S.r.failed, "completed", Null)
    IN  IF CommitOk(S, cs)
        THEN [U EXCEPT !.r.pc = "done",
                       !.r.ret = [synced_count |-> S.r.synced,
                                  failed_count |-> S.r.failed,
                                  total_books |-> S.r.total,
                                  errors |-> S.r.errors]]
        ELSE Fatal(U, cs)

\* worker.py 211: the next library of the for loop, or the end of the loop.
AdvanceLibrary(S, cs) ==
    IF S.r.li < Len(S.r.libs)
    THEN [S EXCEPT !.r.li = @ + 1, !.r.pc = "items"]
    ELSE Finish(S, cs)

\* No per-library try: the fault reaches the handler of the outer try.
LibraryFaultIsFatal(S, cs) == Fatal(S, cs)

\* worker.py 264-267: the handler of the per-library try.
LibraryFault(S, cs) ==
    AdvanceLibrary([S EXCEPT !.r.errors = Append(@, "library")], cs)

\* worker.py 217: the next item of the for loop, or the end of the loop.
NextItem(S, cs) ==
    IF S.r.ii < Len(S.r.items)
    THEN [S EXCEPT !.r.ii = @ + 1, !.r.pc = "progress"]
    ELSE AdvanceLibrary(S, cs)

\* No update_sync_job after the per-item try.
AfterItemWithoutUpdate(S, cs) == NextItem(S, cs)

\* worker.py 261-262: update_sync_job after the per-item try.
AfterItem(S, cs) ==
    LET U == UpdateSyncJob(S, cs, S.r.synced + S.r.failed, "running", Null)
    IN  IF CommitOk(S, cs) THEN NextItem(U, cs) ELSE LibraryFault(U, cs)

\* An item without progress counted as failed.
NoProgressCountsFailed(S, cs) ==
    AfterItem([S EXCEPT !.r.failed = @ + 1, !.r.fault = "unavailable"], cs)

\* worker.py 223-224: get_progress answered nothing: continue.
NoProgress(S, cs) == NextItem([S EXCEPT !.r.fault = "unavailable"], cs)

\* No per-item try: the fault reaches the handler of the per-library try.
ItemFaultPropagates(S, cs, where) ==
    LibraryFault([S EXCEPT !.r.fault = where], cs)

\* worker.py 255-259: the handler of the per-item try; where: what raised.
ItemFault(S, cs, where) ==
    AfterItem([S EXCEPT !.r.failed = @ + 1, !.r.errors = Append(@, "book"),
                        !.r.fault = where], cs)

\* The result of sync_book_progress counted as synced when it is true, and
\* every return counted as failed.
SyncReturnedCountsBoth(S, cs, value) ==
    AfterItem([S EXCEPT !.r.synced = IF value THEN @ + 1 ELSE @,
                        !.r.failed = @ + 1,
                        !.r.syncRet = IF value THEN "true" ELSE "false"], cs)

\* worker.py 250-253: the result of sync_book_progress is counted.
SyncReturned(S, cs, value) ==
    AfterItem([S EXCEPT !.r.synced = IF value THEN @ + 1 ELSE @,
                        !.r.failed = IF value THEN @ ELSE @ + 1,
                        !.r.syncRet = IF value THEN "true" ELSE "false"], cs)

\* sync_book_progress returning whether every platform update succeeded.
SyncFinishAllMustSucceed(S, cs) ==
    LET T == Committed(S, cs)
    IN  IF CommitOk(S, cs)
        THEN SyncReturned([T EXCEPT !.books[S.r.book].last_synced_at =
                                         UtcNow(S.r.job, "sync_book_progress")],
                          cs, S.r.succ = Len(S.r.maps))
        ELSE SyncReturned(T, cs, FALSE)

\* sync_book_progress storing last_synced_at only if a platform update succeeded.
SyncFinishStampsOnSuccess(S, cs) ==
    IF S.r.succ > 0
    THEN LET T == Committed(S, cs)
         IN  IF CommitOk(S, cs)
             THEN SyncReturned([T EXCEPT !.books[S.r.book].last_synced_at =
                                              UtcNow(S.r.job, "sync_book_progress")],
                               cs, TRUE)
             ELSE SyncReturned(T, cs, FALSE)
    ELSE SyncReturned(S, cs, FALSE)

\* worker.py 76-84: after the loop over the mappings.
SyncFinish(S, cs) ==
    LET T == Committed(S, cs)
    IN  IF CommitOk(S, cs)
        THEN SyncReturned([T EXCEPT !.books[S.r.book].last_synced_at =
                                         UtcNow(S.r.job, "sync_book_progress")],
                          cs, S.r.succ > 0)
        ELSE SyncReturned(T, cs, FALSE)

Min(x, y) == IF x < y THEN x ELSE y
Max(x, y) == IF x > y THEN x ELSE y

\* worker.py 95-96, 125-126: progress_percent, in whole percents (the values
\* drawn for progress and duration divide without a remainder).
ProgressPercent(book) ==
    LET progress_percent == IF book.total_duration > 0
                            THEN (book.current_progress * 100) \div book.total_duration
                            ELSE 0
    IN  Min(100, Max(0, progress_percent))

\* worker.py 98-101, 128-132: the arguments of update_reading_progress.
UpdateArgs(book, mapping) ==
    [book_id |-> mapping.platform_book_id,
     progress_percent |-> ProgressPercent(book),
     is_finished |-> book.is_finished]

\* No try in _sync_to_<platform>: a fault reaches the handler of
\* sync_book_progress, which returns False at once.
AfterUpdateFaultPropagates(S, cs, a) ==
    LET m == S.r.maps[S.r.mi]
        T == [S EXCEPT !.r.att = Append(@, m),
                       !.r.calls = Append(@, <<m, a>>),
                       !.r.args = Append(@, UpdateArgs(S.books[S.r.book], mappings[m])),
                       !.r.succ = IF a = "true" THEN @ + 1 ELSE @,
                       !.r.mi = @ + 1]
    IN  IF a = "raise" THEN SyncReturned(T, cs, FALSE)
        ELSE IF S.r.mi < Len(S.r.maps) THEN T ELSE SyncFinish(T, cs)

\* worker.py 64-74 with 98-114, 128-145: the call for mapping maps[mi] has
\* answered a; a fault is caught in _sync_to_<platform> and counts as False.
AfterUpdate(S, cs, a) ==
    LET m == S.r.maps[S.r.mi]
        T == [S EXCEPT !.r.att = Append(@, m),
                       !.r.calls = Append(@, <<m, a>>),
                       !.r.args = Append(@, UpdateArgs(S.books[S.r.book], mappings[m])),
                       !.r.succ = IF a = "true" THEN @ + 1 ELSE @,
                       !.r.mi = @ + 1]
    IN  IF S.r.mi < Len(S.r.maps) THEN T ELSE SyncFinish(T, cs)

\* worker.py 54-56: ids of the rows of book_mappings of one book, in id order.
RECURSIVE MappingsOf(_, _, _)
MappingsOf(ms, b, i) ==
    IF i > Len(ms) THEN <<>>
    ELSE (IF ms[i].audiobook_id = b THEN <<i>> ELSE <<>>) \o MappingsOf(ms, b, i + 1)

\* No test of total_duration == 0 in _sync_to_<platform>.
SyncBookProgressNoDurationCheck(S, cs, ms) ==
    LET maps == MappingsOf(ms, S.r.book, 1)
        T == [S EXCEPT !.r.maps = maps, !.r.mi = 1, !.r.succ = 0,
                       !.r.att = <<>>, !.r.calls = <<>>, !.r.args = <<>>,
                       !.r.syncRet = Null,
                       !.r.matched = {}]
    IN  IF maps = <<>>
        THEN SyncReturned(T, cs, FALSE)
        ELSE [T EXCEPT !.r.pc = "update"]

\* worker.py 52-74 up to the first client call: sync_book_progress(book, db).
SyncBookProgress(S, cs, ms) ==
    LET maps == MappingsOf(ms, S.r.book, 1)
        T == [S EXCEPT !.r.maps = maps, !.r.mi = 1, !.r.succ = 0,
                       !.r.att = <<>>, !.r.calls = <<>>, !.r.args = <<>>,
                       !.r.syncRet = Null,
                       !.r.matched = {}]
    IN  IF maps = <<>>
        THEN SyncReturned(T, cs, FALSE)
        ELSE IF S.books[S.r.book].total_duration = 0
        THEN \* worker.py 91-93, 121-123: every mapping is skipped without a call
             SyncFinish([T EXCEPT !.r.att = maps, !.r.mi = Len(maps) + 1], cs)
        ELSE [T EXCEPT !.r.pc = "update"]

\* The pass adding a row for every observation, without looking the id up.
UpsertAlwaysCreates(S, cs, item, d, ms) ==
    LET b == Len(S.books) + 1
        S2 == Committed(Committed(S, cs), cs)
        books2 == Append(S.books,
                         [NewAudioBook(item) EXCEPT
                             !.current_progress = d.progress,
                             !.is_finished = d.isFinished,
                             !.total_duration = d.duration,
                             !.last_synced_at = UtcNow(S.r.job, "run_periodic_sync")])
    IN  SyncBookProgress([S2 EXCEPT !.books = books2, !.r.book = b], cs, ms)

\* The pass syncing the book before it has stored the progress of the item.
UpsertSyncsBeforeStoring(S, cs, item, d, ms) ==
    LET found == {i \in DOMAIN S.books : S.books[i].audiobookshelf_id = item}
        create == found = {}
        S1 == IF create THEN Committed(S, cs) ELSE S
        books1 == IF create THEN Append(S.books, NewAudioBook(item)) ELSE S.books
        b == IF create THEN Len(S.books) + 1 ELSE CHOOSE i \in found : TRUE
    IN  SyncBookProgress([S1 EXCEPT !.books = books1, !.r.book = b, !.r.data = d],
                         cs, ms)

\* The pass storing the progress of the item without last_synced_at.
UpsertWithoutStamp(S, cs, item, d, ms) ==
    LET found == {i \in DOMAIN S.books : S.books[i].audiobookshelf_id = item}
        create == found = {}
        S1 == IF create THEN Committed(S, cs) ELSE S
        ok1 == create => CommitOk(S, cs)
        books1 == IF create THEN Append(S.books, NewAudioBook(item)) ELSE S.books
        b == IF create THEN Len(S.books) + 1 ELSE CHOOSE i \in found : TRUE
        S2 == Committed(S1, cs)
        ok2 == CommitOk(S1, cs)
        books2 == [books1 EXCEPT ![b] =
                     [@ EXCEPT !.current_progress = d.progress,
                               !.is_finished = d.isFinished,
                               !.total_duration = d.duration]]
    IN  IF ~ok1 THEN ItemFault(S1, cs, "upsert")
        ELSE IF ~ok2 THEN ItemFault([S2 EXCEPT !.books = books1], cs, "upsert")
        ELSE SyncBookProgress([S2 EXCEPT !.books = books2, !.r.book = b,
                                         !.r.data = d], cs, ms)

\* worker.py 226-247: get or create the book, store its progress.
Upsert(S, cs, item, d, ms) ==
    LET found == {i \in DOMAIN S.books : S.books[i].audiobookshelf_id = item}
        create == found = {}
        S1 == IF create THEN Committed(S, cs) ELSE S
        ok1 == create => CommitOk(S, cs)
        books1 == IF create THEN Append(S.books, NewAudioBook(item)) ELSE S.books
        b == IF create THEN Len(S.books) + 1 ELSE CHOOSE i \in found : TRUE
        S2 == Committed(S1, cs)
        ok2 == CommitOk(S1, cs)
        books2 == [books1 EXCEPT ![b] =
                     [@ EXCEPT !.current_progress = d.progress,
                               !.is_finished = d.isFinished,
                               !.total_duration = d.duration,
                               !.last_synced_at =
                                   UtcNow(S.r.job, "run_periodic_sync")]]
    IN  IF ~ok1 THEN ItemFault(S1, cs, "upsert")
        ELSE IF ~ok2 THEN ItemFault([S2 EXCEPT !.books = books1], cs, "upsert")
        ELSE SyncBookProgress([S2 EXCEPT !.books = books2, !.r.book = b,
                                         !.r.data = d], cs, ms)

\* ------------------------------------------------------------ the environment
\* The outcomes of the commits of one step: at most storeFaultsLeft of them fail.
CommitChoices ==
    IF storeFaultsLeft = 0 THEN {[k \in 1..MaxCommitsPerStep |-> TRUE]}
    ELSE {cs \in [1..MaxCommitsPerStep -> BOOLEAN] :
            Cardinality({k \in DOMAIN cs : ~cs[k]}) <= storeFaultsLeft}

\* The locals of sync_book_progress and what the last step noted are dropped
\* when the coroutine goes on after sync_book_progress has returned.
Resumed(r) ==
    IF r.syncRet = Null THEN [r EXCEPT !.fault = Null]
    ELSE [r EXCEPT !.fault = Null, !.syncRet = Null, !.book = 0, !.maps = <<>>,
                   !.mi = 0, !.succ = 0, !.att = <<>>, !.calls = <<>>, !.args = <<>>,
                   !.matched = {}, !.data = [kind |-> "none"]]

Start(p) == [r |-> Resumed(run[p]), books |-> books, jobs |-> jobs,
             n |-> 0, f |-> 0]

\* The step leaves S: the failed commits come out of the environment's budget.
Leave(p, end) ==
    \E S \in {end} :
        /\ S.f <= storeFaultsLeft
        /\ run' = [run EXCEPT ![p] = [S.r EXCEPT !.sf = @ + S.f]]
        /\ books' = S.books
        /\ jobs' = S.jobs
        /\ storeFaultsLeft' = storeFaultsLeft - S.f

Instances == Cardinality({p \in PassSlots : run[p].pc \in Active})

\* ------------------------------------------------------------ scheduling
\* scheduler.py 126-141: get_sync_stats on the store as it is.
GetSyncStats ==
    LET total_books == Len(books)
        synced_books == Cardinality({i \in DOMAIN books :
                                        books[i].last_synced_at # NoTime})
    IN  [total_books |-> total_books, synced_books |-> synced_books,
         pending_books |-> total_books - synced_books,
         scheduler_running |-> scheduler.running]

\* app.py 116-136: startup_event registers the pass and starts the scheduler.
\* scheduler.py 77-92: remove_job then add_job(replace_existing=True).
AddPeriodicSyncJob(jobstore) == (jobstore \ {"periodic_sync"}) \cup {"periodic_sync"}

StartupEvent ==
    /\ ~started
    /\ started' = TRUE
    /\ \E startOk \in BOOLEAN :
         scheduler' = IF canSync
                      THEN [jobstore |-> AddPeriodicSyncJob(scheduler.jobstore),
                            running |-> startOk]
                      ELSE scheduler
    /\ UNCHANGED <<books, mappings, jobs, run, canSync, storeFaultsLeft,
                   match, resolved, overlap,
                   oddProgress, oddResults, opsLeft>>

\* app.py 335-379: POST /api/setup/complete.
SetupComplete ==
    /\ started
    /\ canSync
    /\ ~scheduler.running
    /\ \E startOk \in BOOLEAN :
         scheduler' = [jobstore |-> AddPeriodicSyncJob(scheduler.jobstore),
                       running |-> startOk]
    /\ UNCHANGED <<books, mappings, jobs, run, started, canSync,
                   storeFaultsLeft, match, resolved, overlap, oddProgress, oddResults, opsLeft>>

\* An executor that does not limit the runs of a job that are in flight.
CanSubmitUnlimited(instances) == TRUE

\* scheduler.py 85-92: add_job leaves max_instances at its default, and the
\* executor refuses a run of a job that has max_instances runs in flight.
CanSubmit(instances) == instances < MaxInstances

\* worker.py 191-198: the interval fires, run_periodic_sync starts: create_sync_job.
StartPass(p) ==
    /\ scheduler.running
    /\ "periodic_sync" \in scheduler.jobstore
    /\ CanSubmit(Instances)
    /\ opsLeft > 0
    /\ opsLeft' = opsLeft - 1
    /\ run[p].pc \notin Active
    /\ \A q \in PassSlots : q < p => run[q].pc \in Active
    /\ overlap \/ \A t \in MatcherSlots : match[t].pc \notin MatchActive
    /\ \E cs \in CommitChoices :
         LET S == Committed([Start(p) EXCEPT !.r = IdlePass], cs)
         IN  IF cs[1]
             THEN Leave(p, [S EXCEPT !.jobs = Append(jobs, NewSyncJob("sync_progress", 0)),
                                     !.r.job = Len(jobs) + 1,
                                     !.r.pc = "libraries"])
             ELSE Leave(p, [S EXCEPT !.r.pc = "raised"])
    /\ UNCHANGED <<mappings, scheduler, started, canSync, match, resolved, overlap,
                   oddProgress, oddResults>>

\* worker.py 200-208: abs.get_user_libraries() answers.
GetUserLibraries(p) ==
    /\ run[p].pc = "libraries"
    /\ \E cs \in CommitChoices :
       \E fault \in BOOLEAN, libs \in LibraryLists :
         Leave(p, IF fault THEN Fatal([Start(p) EXCEPT !.r.fault = "libraries"], cs)
                  ELSE IF libs = <<>> THEN NoLibraries(Start(p), cs)
                  ELSE [Start(p) EXCEPT !.r.libs = libs, !.r.li = 1,
                                        !.r.pc = "items"])
    /\ UNCHANGED <<mappings, scheduler, started, canSync, match, resolved, overlap,
                   oddProgress, oddResults, opsLeft>>

\* worker.py 212-217: abs.get_library_items(library_id) answers.
GetLibraryItems(p) ==
    /\ run[p].pc = "items"
    /\ \E cs \in CommitChoices :
       \E fault \in BOOLEAN, items \in ItemLists :
         Leave(p, IF fault THEN LibraryFault([Start(p) EXCEPT !.r.fault = "items"], cs)
                  ELSE LET S == [Start(p) EXCEPT !.r.total = @ + Len(items),
                                                 !.r.items = items, !.r.ii = 1]
                       IN  IF items = <<>> THEN AdvanceLibrary(S, cs)
                           ELSE [S EXCEPT !.r.pc = "progress"])
    /\ UNCHANGED <<mappings, scheduler, started, canSync, match, resolved, overlap,
                   oddProgress, oddResults, opsLeft>>

\* worker.py 218-253: abs.get_progress(book_id) answers.
GetProgress(p) ==
    /\ run[p].pc = "progress"
    /\ \E cs \in CommitChoices :
       \E d \in ProgressAnswers \cup (IF oddProgress THEN OddProgressAnswers ELSE {}) :
         LET S == Start(p)
         IN  Leave(p, CASE d.kind = "raise" -> ItemFault(S, cs, "fetch")
                        [] d.kind = "none" -> NoProgress(S, cs)
                        [] OTHER -> Upsert(S, cs, run[p].items[run[p].ii], d,
                                           mappings))
    /\ UNCHANGED <<mappings, scheduler, started, canSync, match, resolved, overlap,
                   oddProgress, oddResults, opsLeft>>

\* storygraph.py 39-49: the authentication states of the StoryGraph client.
AuthMethods == {"none", "cookie", "username_password"}

\* StoryGraphClient.update_reading_progress with the update written for the
\* username and password login.
StoryGraphUpdateImplemented(auth_method) ==
    IF auth_method = "username_password" THEN "true" ELSE "false"

\* storygraph.py 204-256: StoryGraphClient.update_reading_progress.
StoryGraphUpdate(auth_method) ==
    IF auth_method = "none" THEN "false"
    ELSE IF auth_method = "cookie" THEN "false"
    ELSE IF auth_method = "username_password" THEN "false"
    ELSE "false"

\* What update_reading_progress answers at the call in _sync_to_<platform>:
\* hardcovers.py 116-135 answers success or not; storygraph.py 204-256 answers
\* False in every branch.  "raise" is a fault inside the try of the caller.
UpdateAnswers(platform) ==
    IF platform = "hardcovers" THEN {"true", "false", "raise"}
    ELSE {StoryGraphUpdate(auth_method) : auth_method \in AuthMethods} \cup {"raise"}

\* worker.py 64-74, 86-145: update_reading_progress answers for mapping maps[mi].
UpdateReadingProgress(p) ==
    /\ run[p].pc = "update"
    /\ \E cs \in CommitChoices :
       \E a \in UpdateAnswers(mappings[run[p].maps[run[p].mi]].platform) :
         Leave(p, AfterUpdate(Start(p), cs, a))
    /\ UNCHANGED <<mappings, scheduler, started, canSync, match, resolved, overlap,
                   oddProgress, oddResults, opsLeft>>

PassStep(p) ==
    \/ GetUserLibraries(p)
    \/ GetLibraryItems(p)
    \/ GetProgress(p)
    \/ UpdateReadingProgress(p)

\* ------------------------------------------------------------ specification
(***************************************************************************)
(* The database file outlives the process.  At process start it is empty,  *)
(* or it holds what earlier passes and a match_all_books run left: book a   *)
(* with a heuristic match on storygraph and an ISBN match on hardcovers.    *)
(* match_confidence is held in hundredths: 100 is 1.0.                      *)
(***************************************************************************)
(***************************************************************************)
(* BookMatcher.  match_confidence is held in hundredths (100 is 1.0).  A   *)
(* search candidate carries the score fuzz.token_set_ratio gives its text  *)
(* against the query.                                                      *)
(***************************************************************************)
\* matcher.py 207-208: the default of the platforms argument.
DefaultPlatforms == <<"hardcovers", "storygraph">>

\* What hardcovers.get_book_by_isbn answers: a fault, None, or a book.
IsbnAnswers == {"raise", Null, "h-isbn"}

\* What search_books answers: a fault, or a list of candidates.
SearchAnswers ==
    { [kind |-> "raise"],
      [kind |-> "list", results |-> <<>>],
      [kind |-> "list", results |-> << [id |-> "c60", score |-> 60],
                                       [id |-> "c79", score |-> 79] >>],
      [kind |-> "list", results |-> << [id |-> "c60", score |-> 60],
                                       [id |-> "c79", score |-> 79],
                                       [id |-> "c81", score |-> 81] >>],
      [kind |-> "list", results |-> << [id |-> "c92", score |-> 92],
                                       [id |-> "c85", score |-> 85],
                                       [id |-> "c92b", score |-> 92] >>],
      [kind |-> "list", results |-> << [id |-> "c80", score |-> 80] >>],
      [kind |-> "list", results |-> << [id |-> "c100", score |-> 100] >>] }

\* The candidates whose title or authors make the scoring raise: a result that
\* is no dict, or authors a list with an element that is no string.
Unscorable == {"cbad"}

\* matcher.py 131-142: result.get, " ".join(result_authors) or the ratio raises.
ScoringRaises(result) == result.id \in Unscorable

\* Answers of search_books with a candidate that cannot be scored.
OddSearchAnswers ==
    { [kind |-> "list", results |-> << [id |-> "c92", score |-> 92],
                                       [id |-> "cbad", score |-> 0] >>],
      [kind |-> "list", results |-> << [id |-> "cbad", score |-> 0],
                                       [id |-> "c85", score |-> 85] >>],
      [kind |-> "list", results |-> << [id |-> "c60", score |-> 60],
                                       [id |-> "cbad", score |-> 0] >>] }

\* The search answered a list and the scoring of one of its candidates raises.
ScoreFault(answer) ==
    /\ answer.kind = "list"
    /\ \E k \in DOMAIN answer.results : ScoringRaises(answer.results[k])

\* What match_book_on_platform returns when it has no match.
None == [none |-> TRUE]

\* No call of the adapter has been made.
NotAsked == [kind |-> "unasked"]

\* The locals of the coroutine, and what it has done: isbnAnswer and
\* searchAnswer are what the adapter answered in the current
\* match_book_on_platform, tried the returns of match_book_on_platform (and whether the
\* lookup or the search raised) in this
\* match_all_books, before the rows in book_mappings when it started, missed
\* the pairs the last match_all_books before this operation got no match for.
IdleMatch ==
    [pc |-> "idle", op |-> Null, n |-> 0, bi |-> 0, pi |-> 0,
     book |-> 0, platform |-> Null, ret |-> None,
     results |-> [platform \in Platforms |-> 0],
     isbnAnswer |-> "unasked", searchAnswer |-> NotAsked,
     tried |-> <<>>, before |-> 0, missed |-> {}]

\* The pairs for which match_book_on_platform returned no match to the
\* match_all_books m, or to the last one before the operation m.
Missed(m) ==
    IF m.op = "match_all"
    THEN {<<m.tried[k].book, m.tried[k].platform>> :
             k \in {j \in DOMAIN m.tried : m.tried[j].found = None}}
    ELSE m.missed

\* The check that ignores the rows of manual overrides.
ExistingAutomatedMappings(ms, book_id, platform) ==
    {m \in DOMAIN ms : /\ ms[m].audiobook_id = book_id
                       /\ ms[m].platform = platform
                       /\ ~ms[m].is_manual_override}

\* matcher.py 55-58, 221-224: the rows the query for (book, platform) selects;
\* .first() takes one of them.
ExistingMappings(ms, book_id, platform) ==
    {m \in DOMAIN ms : ms[m].audiobook_id = book_id /\ ms[m].platform = platform}

\* matcher.py 62-66
StoredMatch(mapping) ==
    [platform_id |-> mapping.platform_book_id,
     confidence |-> mapping.match_confidence,
     is_manual |-> mapping.is_manual_override]

\* An ISBN match with a confidence below 1.0.
IsbnMatchScored(result) == [platform_id |-> result, confidence |-> 95]

\* matcher.py 93-98
IsbnMatch(result) == [platform_id |-> result, confidence |-> 100]

\* The scoring loop with score >= best_score: the last of the best wins.
RECURSIVE BestMatchLastWins(_, _, _, _)
BestMatchLastWins(results, k, best_score, best_match) ==
    IF k > Len(results) THEN best_match
    ELSE LET score == results[k].score
         IN  IF score >= best_score /\ score >= MIN_FUZZY_SCORE
             THEN BestMatchLastWins(results, k + 1, score,
                                    [platform_id |-> results[k].id,
                                     confidence |-> (score * 100) \div 100])
             ELSE BestMatchLastWins(results, k + 1, best_score, best_match)

\* The scoring loop without the acceptance threshold.
RECURSIVE BestMatchNoThreshold(_, _, _, _)
BestMatchNoThreshold(results, k, best_score, best_match) ==
    IF k > Len(results) THEN best_match
    ELSE LET score == results[k].score
         IN  IF score > best_score
             THEN BestMatchNoThreshold(results, k + 1, score,
                                       [platform_id |-> results[k].id,
                                        confidence |-> (score * 100) \div 100])
             ELSE BestMatchNoThreshold(results, k + 1, best_score, best_match)

\* The scoring loop with a try around each candidate: one that cannot be
\* scored is passed over.
RECURSIVE BestMatchSkipsUnscorable(_, _, _, _)
BestMatchSkipsUnscorable(results, k, best_score, best_match) ==
    IF k > Len(results) THEN best_match
    ELSE IF ScoringRaises(results[k])
    THEN BestMatchSkipsUnscorable(results, k + 1, best_score, best_match)
    ELSE LET score == results[k].score
         IN  IF score > best_score /\ score >= MIN_FUZZY_SCORE
             THEN BestMatchSkipsUnscorable(results, k + 1, score,
                                           [platform_id |-> results[k].id,
                                            confidence |-> (score * 100) \div 100])
             ELSE BestMatchSkipsUnscorable(results, k + 1, best_score, best_match)

\* matcher.py 126-165: the loop over the results from result k on; a fault in
\* the scoring of a candidate leaves the loop for the handler of 163-165, which
\* returns None.
RECURSIVE BestMatch(_, _, _, _)
BestMatch(results, k, best_score, best_match) ==
    IF k > Len(results) THEN best_match
    ELSE IF ScoringRaises(results[k]) THEN None
    ELSE LET score == results[k].score
         IN  IF score > best_score /\ score >= MIN_FUZZY_SCORE
             THEN BestMatch(results, k + 1, score,
                            [platform_id |-> results[k].id,
                             confidence |-> (score * 100) \div 100])
             ELSE BestMatch(results, k + 1, best_score, best_match)

\* matcher.py 108-165
MatchByFuzzy(answer) ==
    IF answer.kind = "raise" THEN None
    ELSE IF answer.results = <<>> THEN None
    ELSE BestMatch(answer.results, 1, 0, None)

\* matcher.py 167-188
NewBookMapping(book_id, platform, platform_book_id, confidence, is_manual) ==
    [audiobook_id |-> book_id, platform |-> platform,
     platform_book_id |-> platform_book_id, match_confidence |-> confidence,
     is_manual_override |-> is_manual]

\* The loops leaving a book at its first mapped platform.
RECURSIVE NextUnmappedSkipsBook(_, _, _, _)
NextUnmappedSkipsBook(ms, n, bi, pi) ==
    IF bi > n THEN <<0, 0>>
    ELSE IF pi > Len(DefaultPlatforms) THEN NextUnmappedSkipsBook(ms, n, bi + 1, 1)
    ELSE IF ExistingMappings(ms, bi, DefaultPlatforms[pi]) = {} THEN <<bi, pi>>
    ELSE NextUnmappedSkipsBook(ms, n, bi + 1, 1)

\* matcher.py 218-226: the next (book, platform) of the loops, from (bi, pi)
\* on, that has no mapping; <<0, 0>> when the loops are over.
RECURSIVE NextUnmapped(_, _, _, _)
NextUnmapped(ms, n, bi, pi) ==
    IF bi > n THEN <<0, 0>>
    ELSE IF pi > Len(DefaultPlatforms) THEN NextUnmapped(ms, n, bi + 1, 1)
    ELSE IF ExistingMappings(ms, bi, DefaultPlatforms[pi]) = {} THEN <<bi, pi>>
    ELSE NextUnmapped(ms, n, bi, pi + 1)

\* match_book_on_platform without the ISBN lookup.
LookupFuzzyOnly(T, book_id, platform) ==
    [T EXCEPT !.m.book = book_id, !.m.platform = platform,
              !.m.isbnAnswer = "unasked", !.m.searchAnswer = NotAsked,
              !.m.pc = "search"]

\* matcher.py 68-76: match_book_on_platform on a pair without mapping goes
\* to the ISBN lookup (hardcovers and a book with an ISBN) or to the search.
Lookup(T, book_id, platform) ==
    [T EXCEPT !.m.book = book_id, !.m.platform = platform,
              !.m.isbnAnswer = "unasked", !.m.searchAnswer = NotAsked,
              !.m.pc = IF books[book_id].isbn # "" /\ platform = "hardcovers"
                       THEN "isbn" ELSE "search"]

\* matcher.py 218-247: match_all_books goes on from (bi, pi).
MatchLoop(T, bi, pi) ==
    LET next == NextUnmapped(T.mappings, T.m.n, bi, pi)
    IN  IF next = <<0, 0>>
        THEN [T EXCEPT !.m.pc = "done", !.m.bi = 0, !.m.pi = 0, !.m.book = 0,
                       !.m.platform = Null]
        ELSE Lookup([T EXCEPT !.m.bi = next[1], !.m.pi = next[2]],
                    next[1], DefaultPlatforms[next[2]])

\* The history of what match_book_on_platform returned: the first match for
\* a pair is kept until a match for another pair is returned.
Noted(T, found) ==
    IF found = None THEN T
    ELSE IF T.resolved # None /\ T.resolved.book = T.m.book
                             /\ T.resolved.platform = T.m.platform
    THEN T
    ELSE [T EXCEPT !.resolved = [book |-> T.m.book,
                                 platform |-> T.m.platform,
                                 platform_id |-> found.platform_id,
                                 confidence |-> found.confidence]]

\* match_all_books saving the match without counting it.
ReturnedUncounted(T, ok, found) ==
    LET N == Noted(T, found)
        U == IF T.m.op = "resolve" THEN N
             ELSE [N EXCEPT !.m.tried = Append(@, [book |-> T.m.book,
                                                   platform |-> T.m.platform,
                                                   found |-> found,
                                                   isbnFault |-> T.m.isbnAnswer = "raise",
                                                   searchFault |-> T.m.searchAnswer.kind = "raise",
                                                   scoreFault |-> ScoreFault(T.m.searchAnswer)])]
    IN  IF T.m.op = "resolve" THEN [U EXCEPT !.m.pc = "done", !.m.ret = found]
        ELSE IF found = None THEN MatchLoop(U, T.m.bi, T.m.pi + 1)
        ELSE IF ~ok THEN [U EXCEPT !.m.pc = "raised", !.f = 1]
        ELSE MatchLoop([U EXCEPT !.mappings = Append(@,
                                    NewBookMapping(T.m.book, T.m.platform,
                                                   found.platform_id,
                                                   found.confidence, FALSE))],
                       T.m.bi, T.m.pi + 1)

\* match_all_books saving whatever match_book_on_platform returned.
ReturnedSavesNoMatch(T, ok, found) ==
    LET N == Noted(T, found)
        U == IF T.m.op = "resolve" THEN N
             ELSE [N EXCEPT !.m.tried = Append(@, [book |-> T.m.book,
                                                   platform |-> T.m.platform,
                                                   found |-> found,
                                                   isbnFault |-> T.m.isbnAnswer = "raise",
                                                   searchFault |-> T.m.searchAnswer.kind = "raise",
                                                   scoreFault |-> ScoreFault(T.m.searchAnswer)])]
    IN  IF T.m.op = "resolve" THEN [U EXCEPT !.m.pc = "done", !.m.ret = found]
        ELSE IF ~ok THEN [U EXCEPT !.m.pc = "raised", !.f = 1]
        ELSE MatchLoop([U EXCEPT !.mappings = Append(@,
                                    NewBookMapping(T.m.book, T.m.platform,
                                        IF found = None THEN Null
                                        ELSE found.platform_id,
                                        IF found = None THEN 100
                                        ELSE found.confidence, FALSE)),
                                 !.m.results[T.m.platform] = @ + 1],
                       T.m.bi, T.m.pi + 1)

\* matcher.py 76, 227-236: match_book_on_platform returns found, to its caller
\* or to match_all_books, which saves the match and goes on.
Returned(T, ok, found) ==
    LET N == Noted(T, found)
        U == IF T.m.op = "resolve" THEN N
             ELSE [N EXCEPT !.m.tried = Append(@, [book |-> T.m.book,
                                                   platform |-> T.m.platform,
                                                   found |-> found,
                                                   isbnFault |-> T.m.isbnAnswer = "raise",
                                                   searchFault |-> T.m.searchAnswer.kind = "raise",
                                                   scoreFault |-> ScoreFault(T.m.searchAnswer)])]
    IN  IF T.m.op = "resolve" THEN [U EXCEPT !.m.pc = "done", !.m.ret = found]
        ELSE IF found = None THEN MatchLoop(U, T.m.bi, T.m.pi + 1)
        ELSE IF ~ok THEN [U EXCEPT !.m.pc = "raised", !.f = 1]
        ELSE MatchLoop([U EXCEPT !.mappings = Append(@,
                                    NewBookMapping(T.m.book, T.m.platform,
                                                   found.platform_id,
                                                   found.confidence, FALSE)),
                                 !.m.results[T.m.platform] = @ + 1],
                       T.m.bi, T.m.pi + 1)

StartMatch(t) == [m |-> [IdleMatch EXCEPT !.missed = Missed(match[t])],
                  mappings |-> mappings, resolved |-> resolved,
                  f |-> 0]

ResumeMatch(t) == [m |-> match[t], mappings |-> mappings, resolved |-> resolved,
                   f |-> 0]

LeaveMatch(t, end) ==
    \E T \in {end} :
        /\ T.f <= storeFaultsLeft
        /\ match' = [match EXCEPT ![t] = T.m]
        /\ mappings' = T.mappings
        /\ resolved' = T.resolved
        /\ storeFaultsLeft' = storeFaultsLeft - T.f

\* A caller starts an operation of the matcher.
CanStartMatch(t) ==
    /\ opsLeft > 0
    /\ match[t].pc \notin MatchActive
    /\ \A u \in MatcherSlots : u < t => match[u].pc \in MatchActive
    /\ overlap \/ /\ \A u \in MatcherSlots : match[u].pc \notin MatchActive
                  /\ \A p \in PassSlots : run[p].pc \notin Active

\* matcher.py 36-76: match_book_on_platform(book, platform, db) is called.
MatchBookOnPlatform(t) ==
    /\ CanStartMatch(t)
    /\ \E book_id \in DOMAIN books, platform \in Platforms :
         LET T == [StartMatch(t) EXCEPT !.m.op = "resolve", !.m.book = book_id,
                                        !.m.platform = platform]
             existing == ExistingMappings(mappings, book_id, platform)
         IN  IF existing # {}
             THEN \E m \in existing :
                    LeaveMatch(t, Returned(T, TRUE, StoredMatch(mappings[m])))
             ELSE LeaveMatch(t, Lookup(T, book_id, platform))
    /\ opsLeft' = opsLeft - 1
    /\ UNCHANGED <<books, jobs, run, scheduler, started, canSync, overlap,
                   oddProgress, oddResults>>

\* matcher.py 190-247: match_all_books(db) is called.
MatchAllBooks(t) ==
    /\ CanStartMatch(t)
    /\ LeaveMatch(t, MatchLoop([StartMatch(t) EXCEPT !.m.op = "match_all",
                                                     !.m.n = Len(books),
                                                     !.m.before = Len(mappings)],
                                1, 1))
    /\ opsLeft' = opsLeft - 1
    /\ UNCHANGED <<books, jobs, run, scheduler, started, canSync, overlap,
                   oddProgress, oddResults>>

\* A fault of the ISBN lookup ending match_book_on_platform without a match.
AfterIsbnFaultIsNoMatch(T, ok, answer) ==
    IF answer = "raise" THEN Returned(T, ok, None)
    ELSE IF answer = Null THEN [T EXCEPT !.m.pc = "search"]
    ELSE Returned(T, ok, IsbnMatch(answer))

\* matcher.py 68-76, 82-106: _match_by_isbn catches a fault of the lookup and
\* returns None as it does for no result; match_book_on_platform then goes to
\* the search.
AfterIsbn(T, ok, answer) ==
    IF answer \in {"raise", Null} THEN [T EXCEPT !.m.pc = "search"]
    ELSE Returned(T, ok, IsbnMatch(answer))

\* matcher.py 82-106: hardcovers.get_book_by_isbn answers.
GetBookByIsbn(t) ==
    /\ match[t].pc = "isbn"
    /\ \E answer \in IsbnAnswers, ok \in BOOLEAN :
         /\ ok \/ storeFaultsLeft > 0
         /\ LET T == [ResumeMatch(t) EXCEPT !.m.isbnAnswer = answer]
            IN  LeaveMatch(t, AfterIsbn(T, ok, answer))
    /\ UNCHANGED <<books, jobs, run, scheduler, started, canSync, overlap,
                   oddProgress, oddResults, opsLeft>>

\* matcher.py 108-165: search_books answers.
SearchBooks(t) ==
    /\ match[t].pc = "search"
    /\ \E answer \in SearchAnswers \cup (IF oddResults THEN OddSearchAnswers ELSE {}),
          ok \in BOOLEAN :
         /\ ok \/ storeFaultsLeft > 0
         /\ LeaveMatch(t, Returned([ResumeMatch(t) EXCEPT !.m.searchAnswer = answer],
                                   ok, MatchByFuzzy(answer)))
    /\ UNCHANGED <<books, jobs, run, scheduler, started, canSync, overlap,
                   oddProgress, oddResults, opsLeft>>

MatchStep(t) == GetBookByIsbn(t) \/ SearchBooks(t)

\* ------------------------------------------------------------ the store at the start
SeedBookA ==
    [audiobookshelf_id |-> "a", isbn |-> ItemIsbn("a"), current_progress |-> 50,
     total_duration |-> 100, is_finished |-> FALSE,
     last_synced_at |-> UtcNow(0, "run_periodic_sync")]

Seeds ==
    { [books |-> <<>>, mappings |-> <<>>],
      [books |-> <<SeedBookA>>,
       mappings |-> << [audiobook_id |-> 1, platform |-> "storygraph",
                        platform_book_id |-> "p2", match_confidence |-> 81,
                        is_manual_override |-> FALSE],
                       [audiobook_id |-> 1, platform |-> "hardcovers",
                        platform_book_id |-> "p1", match_confidence |-> 100,
                        is_manual_override |-> FALSE] >>],
      \* book a with its ISBN match on hardcovers only
      [books |-> <<SeedBookA>>,
       mappings |-> << [audiobook_id |-> 1, platform |-> "hardcovers",
                        platform_book_id |-> "p1", match_confidence |-> 100,
                        is_manual_override |-> FALSE] >>] }

\* Book a mapped on storygraph only, once or twice.
StoryGraphSeeds ==
    { [books |-> <<SeedBookA>>,
       mappings |-> << [audiobook_id |-> 1, platform |-> "storygraph",
                        platform_book_id |-> "p2", match_confidence |-> 81,
                        is_manual_override |-> FALSE] >>],
      [books |-> <<SeedBookA>>,
       mappings |-> << [audiobook_id |-> 1, platform |-> "storygraph",
                        platform_book_id |-> "p2", match_confidence |-> 81,
                        is_manual_override |-> FALSE],
                       [audiobook_id |-> 1, platform |-> "storygraph",
                        platform_book_id |-> "p3", match_confidence |-> 100,
                        is_manual_override |-> TRUE] >>] }

\* A book the matcher has not seen, and a book mapped by hand on hardcovers.
MatcherSeeds ==
    { [books |-> <<SeedBookA>>, mappings |-> <<>>],
      [books |-> <<SeedBookA>>,
       mappings |-> << NewBookMapping(1, "hardcovers", "by-hand", 100, TRUE) >>] }

InitStore(seeds, ops, odd, lap, bad) ==
    /\ \E seed \in seeds : books = seed.books /\ mappings = seed.mappings
    /\ match = [t \in MatcherSlots |-> IdleMatch]
    /\ resolved = None
    /\ overlap = lap
    /\ oddProgress = odd
    /\ oddResults = bad
    /\ opsLeft = ops
    /\ jobs = <<>>
    /\ run = [p \in PassSlots |-> IdlePass]
    /\ scheduler = [jobstore |-> {}, running |-> FALSE]
    /\ started = FALSE
    /\ canSync \in BOOLEAN

InitOf(seeds, ops, odd) == InitStore(seeds, ops, odd, FALSE, FALSE)

InitWith(seeds, ops) == InitOf(seeds, ops, FALSE)

Init == InitWith(Seeds, MaxPasses) /\ storeFaultsLeft = 0

Next ==
    \/ StartupEvent
    \/ SetupComplete
    \/ \E p \in PassSlots : StartPass(p)
    \/ \E p \in PassSlots : PassStep(p)

Spec == Init /\ [][Next]_vars

\* The same program against an Audiobookshelf instance whose progress records
\* may be inconsistent.
InitOddProgress == InitOf(Seeds, MaxPasses, TRUE) /\ storeFaultsLeft = 0

SpecOddProgress == InitOddProgress /\ [][Next]_vars

\* The same program over a store whose mappings are all on storygraph.
InitStoryGraphOnly == InitWith(StoryGraphSeeds, MaxPasses) /\ storeFaultsLeft = 0

SpecStoryGraphOnly == InitStoryGraphOnly /\ [][Next]_vars

\* The same program with a store that may fail a commit.
InitStoreFault == InitWith(Seeds, MaxPasses) /\ storeFaultsLeft = MaxStoreFaults

SpecStoreFault == InitStoreFault /\ [][Next]_vars

\* The event loop resumes a coroutine whose client call has answered, and every
\* client call answers or raises within its timeout.
FairSpec == Spec /\ \A p \in PassSlots : WF_vars(PassStep(p))

\* The operations of the matcher, called one after the other.
InitMatcher == InitWith(Seeds \cup MatcherSeeds, MaxMatcherOps) /\ storeFaultsLeft = 0

NextMatcher ==
    \/ \E t \in MatcherSlots : MatchBookOnPlatform(t)
    \/ \E t \in MatcherSlots : MatchAllBooks(t)
    \/ \E t \in MatcherSlots : MatchStep(t)

SpecMatcher == InitMatcher /\ [][NextMatcher]_vars

\* The operations of the matcher, a caller starting one while another is
\* suspended at a call of an adapter.
InitOverlap == InitStore(MatcherSeeds, MaxOpsAll, FALSE, TRUE, FALSE) /\ storeFaultsLeft = 0

SpecOverlap == InitOverlap /\ [][NextMatcher]_vars

\* The operations of the matcher against platforms whose search results may
\* hold a candidate that cannot be scored.
InitOddResults ==
    InitStore(Seeds \cup MatcherSeeds, MaxMatcherOps, FALSE, FALSE, TRUE) /\ storeFaultsLeft = 0

SpecOddResults == InitOddResults /\ [][NextMatcher]_vars

\* The automated operations of the matcher and of the worker, one after the other.
NextAll == Next \/ NextMatcher

InitAll == InitWith(MatcherSeeds, MaxOpsAll) /\ storeFaultsLeft = 0

SpecAll == InitAll /\ [][NextAll]_vars

\* ------------------------------------------------------------ properties
HasMapping(b, platform) ==
    \E m \in DOMAIN mappings :
        mappings[m].audiobook_id = b /\ mappings[m].platform = platform

SyncInvoked(r) == r.pc = "update" \/ r.syncRet # Null

\* C1 as claimed: under operations of the matcher called one after the other,
\* the store holds at most one mapping per (book, platform), and a later
\* match_book_on_platform for a pair returns the platform id and the
\* confidence the first one returned.
C1_OneRowAndSameResolve ==
    /\ \A b \in DOMAIN books, platform \in Platforms :
          Cardinality(ExistingMappings(mappings, b, platform)) <= 1
    /\ \A t \in MatcherSlots :
          (/\ match[t].op = "resolve"
           /\ match[t].pc = "done"
           /\ resolved # None
           /\ resolved.book = match[t].book
           /\ resolved.platform = match[t].platform) =>
              /\ match[t].ret # None
              /\ match[t].ret.platform_id = resolved.platform_id
              /\ match[t].ret.confidence = resolved.confidence

\* C2: a step of an automated operation (match_book_on_platform,
\* match_all_books, sync_book_progress, run_periodic_sync) leaves every
\* manual-override mapping as it is and adds no mapping for its
\* (book, platform).
C2_ManualOverrideKept ==
    [][\A m \in DOMAIN mappings :
         mappings[m].is_manual_override =>
            /\ m \in DOMAIN mappings'
            /\ mappings'[m] = mappings[m]
            /\ ExistingMappings(mappings', mappings[m].audiobook_id,
                                mappings[m].platform)
                 = ExistingMappings(mappings, mappings[m].audiobook_id,
                                    mappings[m].platform)]_vars

\* C2 witness: a pass has completed and match_all_books has returned, having
\* matched storygraph and not hardcovers for the book mapped by hand on
\* hardcovers.
C2_Witness ==
    /\ \E m \in DOMAIN mappings :
          /\ mappings[m].is_manual_override
          /\ ExistingMappings(mappings, mappings[m].audiobook_id, "storygraph") # {}
    /\ \E j \in DOMAIN jobs : jobs[j].status = "completed"
    /\ \E t \in MatcherSlots :
          /\ match[t].op = "match_all"
          /\ match[t].pc = "done"
          /\ match[t].results["storygraph"] > 0
          /\ match[t].results["hardcovers"] = 0

\* C3: sync_book_progress attempts every mapping of the book exactly once, in
\* order, whatever the earlier calls answered (failure or fault); with a
\* duration it makes exactly one call per mapping; if one call succeeded it
\* returns true; and it has stored last_synced_at when it returns.
C3_EveryMappingOnce ==
    \A p \in PassSlots :
        LET r == run[p]
        IN  /\ r.pc = "update" => r.att = SubSeq(r.maps, 1, r.mi - 1)
            /\ (r.syncRet # Null /\ r.maps # <<>>) =>
                  /\ r.att = r.maps
                  /\ books[r.book].total_duration # 0 =>
                        /\ Len(r.calls) = Len(r.maps)
                        /\ \A k \in DOMAIN r.calls : r.calls[k][1] = r.maps[k]
                  /\ (\E k \in DOMAIN r.calls : r.calls[k][2] = "true")
                        <=> r.syncRet = "true"
                  /\ books[r.book].last_synced_at
                        = UtcNow(r.job, "sync_book_progress")

\* C3 witness: the first platform raised, the second succeeded, true returned.
C3_Witness ==
    \E p \in PassSlots :
        /\ run[p].syncRet = "true"
        /\ Len(run[p].calls) = 2
        /\ run[p].calls[1][2] = "raise"
        /\ run[p].calls[2][2] = "true"

\* What the step of coroutine p was, and what it cost the store.
ItemStep(p) == run[p].pc = "progress" /\ run'[p] # run[p]

SyncFaultStep(p) ==
    /\ run[p].pc = "update"
    /\ run'[p].syncRet # Null
    /\ \E k \in DOMAIN run'[p].calls : run'[p].calls[k][2] = "raise"

StoreFaultsInStep(k) == storeFaultsLeft' = storeFaultsLeft - k

\* The loop of the pass goes on after the item: next item, next library, or the
\* end of the pass with the job completed.
GoesOn(p) ==
    IF run[p].ii < Len(run[p].items)
    THEN /\ run'[p].pc = "progress"
         /\ run'[p].ii = run[p].ii + 1
         /\ run'[p].items = run[p].items
         /\ run'[p].li = run[p].li
    ELSE IF run[p].li < Len(run[p].libs)
    THEN /\ run'[p].pc = "items"
         /\ run'[p].li = run[p].li + 1
         /\ run'[p].libs = run[p].libs
    ELSE /\ run'[p].pc = "done"
         /\ jobs'[run[p].job].status = "completed"

\* The item is counted as failed once, with one error string, and the pass goes on.
CountedFailedWithError(p) ==
    /\ run'[p].failed = run[p].failed + 1
    /\ run'[p].synced = run[p].synced
    /\ run'[p].errors = Append(run[p].errors, "book")
    /\ jobs'[run[p].job].processed_items = run'[p].synced + run'[p].failed
    /\ GoesOn(p)

CaughtByItemHandler(p) ==
    \/ ItemStep(p) /\ run'[p].fault = "fetch" /\ StoreFaultsInStep(0)
    \/ ItemStep(p) /\ run'[p].fault = "upsert" /\ StoreFaultsInStep(1)

C5_StoreFaultIsFatal ==
    \A p \in PassSlots :
        (run[p].sf > 0 /\ run[p].job # 0) =>
            /\ run[p].pc \in {"done", "raised"}
            /\ jobs[run[p].job].status = "failed"
            /\ jobs[run[p].job].error_message # Null

\* C6: the stored status of a job only moves forward: a completed or failed
\* job keeps its status, a running job never becomes pending, no job is removed.
C6_StatusMonotonic ==
    [][\A j \in DOMAIN jobs :
         /\ j \in DOMAIN jobs'
         /\ jobs[j].status \in Terminal => jobs'[j].status = jobs[j].status
         /\ jobs[j].status = "running" => jobs'[j].status \in {"running"} \cup Terminal]_vars

\* C6 witness: a job is terminal while a later pass is running on its own job.
C6_Witness ==
    \E j \in DOMAIN jobs, p \in PassSlots :
        /\ jobs[j].status \in Terminal
        /\ run[p].pc \in Active
        /\ run[p].job # j
        /\ jobs[run[p].job].status = "running"
        /\ jobs[run[p].job].processed_items > 0

\* C7 as claimed: processed_items <= total_items for every job.
C7_ProcessedWithinTotal ==
    \A j \in DOMAIN jobs : jobs[j].processed_items <= jobs[j].total_items

\* C8: every pass returns (it never raises and never stays in flight), and
\* the job of a pass that is not in flight is completed or failed with
\* completed_at set.
C8_PassEndsTerminal ==
    /\ [](\A p \in PassSlots : run[p].pc # "raised")
    /\ [](\A j \in DOMAIN jobs :
            (\A p \in PassSlots : run[p].pc \in Active => run[p].job # j) =>
                /\ jobs[j].status \in Terminal
                /\ jobs[j].completed_at # NoTime)
    /\ \A p \in PassSlots : []<>(run[p].pc \notin Active)

\* C8 witness: a pass has returned, completed, after the item listing of one
\* library and the progress of one item raised.
C8_Witness ==
    \E p \in PassSlots :
        /\ run[p].pc = "done"
        /\ jobs[run[p].job].status = "completed"
        /\ \E i, k \in DOMAIN run[p].errors :
              run[p].errors[i] = "library" /\ run[p].errors[k] = "book"

C10_MatcherBeforeSync ==
    \A p \in PassSlots :
        SyncInvoked(run[p]) =>
            \A platform \in Platforms :
                HasMapping(run[p].book, platform) \/ platform \in run[p].matched

\* match_book_on_platform, called by itself, has returned.
Resolved(t) == match[t].op = "resolve" /\ match[t].pc = "done"

\* C11: match_book_on_platform on a pair without mapping, for a book with an
\* ISBN on hardcovers, asks the ISBN lookup first; when the lookup answers a
\* book it returns that book with confidence 1.0 and search_books is not called.
C11_IsbnWins ==
    \A t \in MatcherSlots :
        Resolved(t) =>
            /\ (/\ match[t].platform = "hardcovers"
                /\ books[match[t].book].isbn # ""
                /\ ExistingMappings(mappings, match[t].book, "hardcovers") = {})
                  => match[t].isbnAnswer # "unasked"
            /\ match[t].isbnAnswer \notin {"unasked", "raise", Null} =>
                  /\ match[t].ret # None
                  /\ match[t].ret.platform_id = match[t].isbnAnswer
                  /\ match[t].ret.confidence = 100
                  /\ match[t].searchAnswer = NotAsked

\* C11 witness: the ISBN lookup answered a book and it was returned.
C11_Witness ==
    \E t \in MatcherSlots :
        /\ Resolved(t)
        /\ match[t].isbnAnswer = "h-isbn"
        /\ match[t].ret # None
        /\ match[t].ret.confidence = 100

\* match_book_on_platform has returned what the search gave.
Searched(t) == Resolved(t) /\ match[t].searchAnswer.kind = "list"

Scores(results) == {results[k].score : k \in DOMAIN results}

TopScore(results) ==
    IF results = <<>> THEN 0
    ELSE CHOOSE s \in Scores(results) : \A o \in Scores(results) : o <= s

\* C12: a heuristic match is returned iff the best candidate score is at least
\* 80; its confidence is its score / 100; candidates scoring 60, 79 and 81 give
\* the 81-scoring one with confidence 0.81, candidates scoring 60 and 79 give
\* no match.
C12_Threshold ==
    \A t \in MatcherSlots :
        Searched(t) =>
            LET results == match[t].searchAnswer.results
                ret == match[t].ret
            IN  /\ ret # None <=> TopScore(results) >= 80
                /\ ret # None =>
                      \E k \in DOMAIN results :
                          /\ results[k].id = ret.platform_id
                          /\ results[k].score = ret.confidence
                /\ [k \in DOMAIN results |-> results[k].score] = <<60, 79, 81>>
                      => ret # None /\ ret.platform_id = "c81"
                                   /\ ret.confidence = 81
                /\ [k \in DOMAIN results |-> results[k].score] = <<60, 79>>
                      => ret = None

\* C12 witness: the search answered candidates scoring 60, 79 and 81 and the
\* 81-scoring one was returned.
C12_Witness ==
    \E t \in MatcherSlots :
        /\ Searched(t)
        /\ Len(match[t].searchAnswer.results) = 3
        /\ match[t].ret # None
        /\ match[t].ret.platform_id = "c81"
        /\ match[t].ret.confidence = 81

\* C13: the heuristic match is a candidate with the maximum score, and among
\* the candidates with that score the first in the adapter's order; candidates
\* scoring 92 and 85 give the 92-scoring one with confidence 0.92.
C13_FirstOfTheBest ==
    \A t \in MatcherSlots :
        (Searched(t) /\ match[t].ret # None) =>
            LET results == match[t].searchAnswer.results
                top == TopScore(results)
                first == CHOOSE k \in DOMAIN results :
                            /\ results[k].score = top
                            /\ \A j \in 1..(k - 1) : results[j].score < top
            IN  /\ match[t].ret.platform_id = results[first].id
                /\ match[t].ret.confidence = top

\* C13 witness: of the candidates scoring 92, 85 and 92 the first was returned.
C13_Witness ==
    \E t \in MatcherSlots :
        /\ Searched(t)
        /\ Len(match[t].searchAnswer.results) = 3
        /\ match[t].searchAnswer.results[3].score = 92
        /\ match[t].ret # None
        /\ match[t].ret.platform_id = "c92"
        /\ match[t].ret.confidence = 92

\* match_book_on_platform has returned a match the adapters gave.
NewMatch(t) ==
    /\ Resolved(t)
    /\ match[t].ret # None
    /\ match[t].isbnAnswer # "unasked" \/ match[t].searchAnswer # NotAsked

IsbnHit(t) == match[t].isbnAnswer \notin {"unasked", "raise", Null}

\* The rows match_all_books t has created.
CreatedBy(t) == (match[t].before + 1)..Len(mappings)

\* C14 as claimed: the confidence of a match of the automated matcher is in
\* [0.0, 1.0], exactly 1.0 for an ISBN match and strictly below 1.0 for every
\* heuristic match.
C14_Original ==
    \A t \in MatcherSlots :
        NewMatch(t) =>
            /\ match[t].ret.confidence \in 0..100
            /\ IsbnHit(t) => match[t].ret.confidence = 100
            /\ Searched(t) => match[t].ret.confidence < 100

\* C14 amended: the confidence of a match of the automated matcher, and of
\* every row match_all_books creates, is in [0.8, 1.0]; it is exactly 1.0 for
\* an ISBN match; for a heuristic match it is score / 100, which is 1.0 when
\* the candidate scores 100; a confidence below 1.0 is a heuristic match.
C14_ConfidenceRange ==
    \A t \in MatcherSlots :
        /\ NewMatch(t) =>
              /\ match[t].ret.confidence \in 80..100
              /\ IsbnHit(t) => match[t].ret.confidence = 100
              /\ Searched(t) =>
                    match[t].ret.confidence = TopScore(match[t].searchAnswer.results)
              /\ match[t].ret.confidence < 100 => Searched(t)
        /\ match[t].op = "match_all" =>
              \A m \in CreatedBy(t) :
                  /\ ~mappings[m].is_manual_override
                  /\ mappings[m].match_confidence \in 80..100

\* C14 witness: a heuristic match on a candidate scoring 100 has confidence 1.0.
C14_Witness ==
    \E t \in MatcherSlots :
        /\ NewMatch(t)
        /\ Searched(t)
        /\ match[t].ret.platform_id = "c100"
        /\ match[t].ret.confidence = 100

\* C15 as claimed: when match_book_on_platform returns a new match for a pair
\* without mapping, the store holds exactly one row for the pair, with the
\* platform id and the confidence returned.
C15_ResolvePersists ==
    \A t \in MatcherSlots :
        NewMatch(t) =>
            LET rows == ExistingMappings(mappings, match[t].book, match[t].platform)
            IN  /\ Cardinality(rows) = 1
                /\ \A m \in rows :
                      /\ mappings[m].platform_book_id = match[t].ret.platform_id
                      /\ mappings[m].match_confidence = match[t].ret.confidence

\* In this step match_book_on_platform returns no match to match_all_books t.
NoMatchToMatchAll(t) ==
    /\ match[t].op = "match_all"
    /\ match[t].pc \in MatchActive
    /\ Len(match'[t].tried) = Len(match[t].tried) + 1
    /\ match'[t].tried[Len(match'[t].tried)].found = None

\* In this step match_book_on_platform returns no match to its caller.
NoMatchToCaller(t) ==
    /\ match[t].op = "resolve"
    /\ match[t].pc \in MatchActive
    /\ match'[t].pc = "done"
    /\ match'[t].ret = None

\* C16: a step in which match_book_on_platform returns no match leaves the
\* mapping store as it is, and match_all_books counts nothing for it.
C16_NoMatchNoRow ==
    [][\A t \in MatcherSlots :
         (NoMatchToMatchAll(t) \/ NoMatchToCaller(t)) =>
            /\ mappings' = mappings
            /\ match'[t].results = match[t].results]_vars

\* C16 witness: match_all_books got no match for a pair and the pair has no row.
C16_Witness ==
    \E t \in MatcherSlots :
        /\ match[t].op = "match_all"
        /\ \E k \in DOMAIN match[t].tried :
              /\ match[t].tried[k].found = None
              /\ ExistingMappings(mappings, match[t].tried[k].book,
                                  match[t].tried[k].platform) = {}

\* The pairs match_all_books t has called match_book_on_platform for.
TriedPairs(t) ==
    {<<match[t].tried[k].book, match[t].tried[k].platform>> :
        k \in DOMAIN match[t].tried}

\* The pair had a mapping when match_all_books t started.
MappedBefore(t, book_id, platform) ==
    \E m \in ExistingMappings(mappings, book_id, platform) : m <= match[t].before

\* C17: match_all_books calls match_book_on_platform once for each pair of a
\* stored book and a platform that has no mapping when it is visited, and
\* makes no adapter call for a pair that has one; when it returns, every pair
\* was mapped before or has been tried, among them the pairs an earlier run
\* got no match for.
C17_TriesTheUnmapped ==
    \A t \in MatcherSlots :
        match[t].op = "match_all" =>
            /\ Cardinality(TriedPairs(t)) = Len(match[t].tried)
            /\ \A k \in DOMAIN match[t].tried :
                  LET rows == ExistingMappings(mappings, match[t].tried[k].book,
                                               match[t].tried[k].platform)
                  IN  /\ rows \subseteq CreatedBy(t)
                      /\ match[t].tried[k].found = None => rows = {}
            /\ match[t].pc \in MatchActive =>
                  /\ ExistingMappings(mappings, match[t].book,
                                      match[t].platform) = {}
                  /\ <<match[t].book, match[t].platform>> \notin TriedPairs(t)
            /\ match[t].pc = "done" =>
                  /\ \A b \in 1..match[t].n, platform \in Platforms :
                        MappedBefore(t, b, platform)
                           <=> <<b, platform>> \notin TriedPairs(t)
                  /\ match[t].missed \subseteq TriedPairs(t)

\* C17 witness: a run has returned that matched a pair the run before it got
\* no match for.
C17_Witness ==
    \E t \in MatcherSlots :
        /\ match[t].op = "match_all"
        /\ match[t].pc = "done"
        /\ \E k \in DOMAIN match[t].tried :
              /\ <<match[t].tried[k].book, match[t].tried[k].platform>>
                    \in match[t].missed
              /\ match[t].tried[k].found # None

\* C18: the count match_all_books holds for a platform is the number of rows
\* it has created for that platform, so are the counts it returns; a run over
\* a store in which every pair is mapped returns zero for every platform and
\* creates no row.
C18_CountsAreRowsCreated ==
    \A t \in MatcherSlots :
        match[t].op = "match_all" =>
            /\ \A platform \in Platforms :
                  match[t].results[platform]
                    = Cardinality({m \in CreatedBy(t) :
                                      mappings[m].platform = platform})
            /\ (/\ match[t].pc = "done"
                /\ \A b \in 1..match[t].n, platform \in Platforms :
                      MappedBefore(t, b, platform)) =>
                  /\ \A platform \in Platforms : match[t].results[platform] = 0
                  /\ Len(mappings) = match[t].before

\* C18 witness: a run has returned one match for each platform.
C18_Witness ==
    \E t \in MatcherSlots :
        /\ match[t].op = "match_all"
        /\ match[t].pc = "done"
        /\ match[t].results["hardcovers"] = 1
        /\ match[t].results["storygraph"] = 1
        /\ Len(mappings) = match[t].before + 2

\* The book sync_book_progress of coroutine p is, or was last, called with.
SyncedBook(p) == books[run[p].book]

\* C19: for a book whose total_duration is 0, sync_book_progress never waits
\* on an update_reading_progress call of any platform client, and once it has
\* returned for a book with mappings it has made no call, every mapping has
\* been handled without a success, and the result is False.
C19_ZeroDurationNoCall ==
    \A p \in PassSlots :
        /\ run[p].pc = "update" => SyncedBook(p).total_duration # 0
        /\ (/\ run[p].syncRet # Null
            /\ run[p].maps # <<>>
            /\ SyncedBook(p).total_duration = 0)
           => /\ run[p].calls = <<>>
              /\ run[p].args = <<>>
              /\ run[p].att = run[p].maps
              /\ run[p].succ = 0
              /\ run[p].syncRet = "false"

\* C19 witness: sync_book_progress has returned for a book of duration 0 that
\* is mapped on both platforms.
C19_Witness ==
    \E p \in PassSlots :
        /\ run[p].syncRet = "false"
        /\ Len(run[p].maps) = 2
        /\ SyncedBook(p).total_duration = 0
        /\ run[p].calls = <<>>

\* current_progress / total_duration * 100 as the arithmetic gives it, for a
\* duration of either sign (the values drawn divide without a remainder).
RatioPercent(book) ==
    IF book.total_duration > 0
    THEN (book.current_progress * 100) \div book.total_duration
    ELSE ((0 - book.current_progress) * 100) \div (0 - book.total_duration)

Clamp(x, lo, hi) == IF x < lo THEN lo ELSE IF x > hi THEN hi ELSE x

\* The k-th update_reading_progress call of sync_book_progress in coroutine p
\* carried the platform_book_id of the mapping it was made for.
CarriesMappingId(p, k) ==
    run[p].args[k].book_id = mappings[run[p].calls[k][1]].platform_book_id

\* C20: every update_reading_progress call made by sync_book_progress carries
\* the platform_book_id of its mapping and a percent equal to
\* clamp(current_progress / total_duration * 100, 0, 100), which lies in
\* [0, 100], for every stored progress and duration.
C20_PercentIsClampedRatio ==
    \A p \in PassSlots : \A k \in DOMAIN run[p].args :
        /\ CarriesMappingId(p, k)
        /\ run[p].args[k].progress_percent \in 0..100
        /\ run[p].args[k].progress_percent = Clamp(RatioPercent(SyncedBook(p)), 0, 100)

\* C20, the part that holds: the call carries the mapping's platform_book_id
\* and a percent in [0, 100]; for a positive total_duration the percent is
\* the clamped ratio; for a negative total_duration it is 0 whatever the
\* progress is.
C20_PositiveDuration ==
    \A p \in PassSlots : \A k \in DOMAIN run[p].args :
        /\ CarriesMappingId(p, k)
        /\ run[p].args[k].progress_percent \in 0..100
        /\ SyncedBook(p).total_duration > 0
           => run[p].args[k].progress_percent
                = Clamp(RatioPercent(SyncedBook(p)), 0, 100)
        /\ SyncedBook(p).total_duration < 0 => run[p].args[k].progress_percent = 0

\* C20 witness: a call was made for a book whose progress and duration are
\* both below zero; the ratio is 50 percent and the call carried 0.
C20_Witness ==
    \E p \in PassSlots : \E k \in DOMAIN run[p].args :
        /\ SyncedBook(p).total_duration < 0
        /\ SyncedBook(p).current_progress < 0
        /\ RatioPercent(SyncedBook(p)) = 50
        /\ run[p].args[k].progress_percent = 0

\* A call was made for a book whose progress is beyond its duration, and it
\* carried 100.
C20_ClampedAbove ==
    \E p \in PassSlots : \E k \in DOMAIN run[p].args :
        /\ SyncedBook(p).current_progress > SyncedBook(p).total_duration
        /\ SyncedBook(p).total_duration > 0
        /\ run[p].args[k].progress_percent = 100

\* sync_book_progress returns in this step of coroutine p.
SyncReturnsInStep(p) ==
    /\ run[p].pc \in {"progress", "update"}
    /\ run'[p].syncRet # Null

\* One of the update_reading_progress calls of the sync answered success.
SomePlatformSucceeded(r) == \E k \in DOMAIN r.calls : r.calls[k][2] = "true"

\* C21: sync_book_progress returns true iff at least one platform update
\* succeeded; for a book with no mappings it returns false without a call of
\* a platform client, and the pass counts the book as failed without
\* appending an error string.
C21_TrueIffOneSucceeded ==
    [][\A p \in PassSlots :
         /\ run'[p].pc = "update" => run'[p].maps # <<>>
         /\ SyncReturnsInStep(p) =>
               /\ run'[p].syncRet = "true" <=> SomePlatformSucceeded(run'[p])
               /\ run'[p].synced = run[p].synced + 1 <=> run'[p].syncRet = "true"
               /\ run'[p].failed = run[p].failed + 1 <=> run'[p].syncRet = "false"
               /\ run'[p].maps = <<>> =>
                     /\ run[p].pc = "progress"
                     /\ run'[p].syncRet = "false"
                     /\ run'[p].calls = <<>>
                     /\ run'[p].failed = run[p].failed + 1
                     /\ run'[p].synced = run[p].synced
                     /\ run'[p].errors = run[p].errors]_vars

\* C21 witness: sync_book_progress has returned false for a book without
\* mappings; the pass has one failed item and no error string.
C21_Witness ==
    \E p \in PassSlots :
        /\ run[p].syncRet = "false"
        /\ run[p].book # 0
        /\ run[p].maps = <<>>
        /\ run[p].calls = <<>>
        /\ run[p].failed = 1
        /\ run[p].synced = 0
        /\ run[p].errors = <<>>

\* Every update_reading_progress call of the sync answered a.
AllAnswered(r, a) == \A k \in DOMAIN r.calls : r.calls[k][2] = a

\* C22: when sync_book_progress returns after it has attempted all mappings
\* of a book, the stored row of the book carries the last_synced_at written by
\* sync_book_progress in this pass, whatever the platforms answered: all
\* succeeded, some failed, all failed, or all skipped for a duration of 0.
C22_StampedWhateverTheOutcome ==
    \A p \in PassSlots :
        (/\ run[p].syncRet # Null
         /\ run[p].maps # <<>>
         /\ run[p].att = run[p].maps)
        => SyncedBook(p).last_synced_at = UtcNow(run[p].job, "sync_book_progress")

\* C22 witness: both platform updates of a book failed (one answered False,
\* one raised), sync_book_progress returned false, and last_synced_at is the
\* one it wrote.
C22_Witness ==
    \E p \in PassSlots :
        /\ run[p].syncRet = "false"
        /\ Len(run[p].calls) = 2
        /\ run[p].calls[1][2] = "false"
        /\ run[p].calls[2][2] = "raise"
        /\ SyncedBook(p).last_synced_at = UtcNow(run[p].job, "sync_book_progress")

\* Every update of a mapped book succeeded, and last_synced_at is written.
C22_AllSucceeded ==
    \E p \in PassSlots :
        /\ run[p].syncRet = "true"
        /\ run[p].calls # <<>>
        /\ AllAnswered(run[p], "true")
        /\ SyncedBook(p).last_synced_at = UtcNow(run[p].job, "sync_book_progress")

\* get_library_items raised in this step of coroutine p.
ListingFaultStep(p) == run[p].pc = "items" /\ run'[p].fault = "items"

\* The error strings of a sequence, as a set.
Range(seq) == {seq[k] : k \in DOMAIN seq}

EnumerationFaultStep(p) == run[p].pc = "libraries" /\ run'[p].fault = "libraries"

EmptyListStep(p) ==
    /\ run[p].pc = "libraries"
    /\ run'[p].pc = "done"
    /\ run'[p].fault = Null

\* C25: when get_user_libraries answers an empty list, the pass marks its
\* SyncJob completed at once with processed_items = 0 and no error message,
\* returns zero synced and failed counts with an empty error list, and
\* touches no AudioBook and no mapping.
C25_NoLibrariesCompletes ==
    [][\A p \in PassSlots :
         EmptyListStep(p) =>
            /\ jobs'[run[p].job].status = "completed"
            /\ jobs'[run[p].job].processed_items = 0
            /\ jobs'[run[p].job].error_message = Null
            /\ jobs'[run[p].job].completed_at # NoTime
            /\ run'[p].ret.synced_count = 0
            /\ run'[p].ret.failed_count = 0
            /\ run'[p].ret.errors = <<>>
            /\ run'[p].libs = <<>>
            /\ books' = books
            /\ mappings' = mappings]_vars

\* C25 witness: a pass over a store with a mapped book has returned on an
\* empty list of libraries, its job completed with nothing processed.
C25_Witness ==
    \E p \in PassSlots :
        /\ run[p].pc = "done"
        /\ run[p].fault = Null
        /\ run[p].libs = <<>>
        /\ run[p].ret.errors = <<>>
        /\ jobs[run[p].job].status = "completed"
        /\ jobs[run[p].job].processed_items = 0
        /\ books # <<>>

\* get_progress answered nothing for the item in this step of coroutine p.
UnavailableStep(p) == run[p].pc = "progress" /\ run'[p].fault = "unavailable"

\* C26: an item whose progress the Audiobookshelf client does not have is
\* skipped: it is counted neither as synced nor as failed, no error string is
\* appended, no AudioBook is created or modified, no platform update is
\* attempted, and the pass goes on with the next item.
C26_UnavailableIsSkipped ==
    [][\A p \in PassSlots :
         UnavailableStep(p) =>
            /\ run'[p].synced = run[p].synced
            /\ run'[p].failed = run[p].failed
            /\ run'[p].errors = run[p].errors
            /\ books' = books
            /\ mappings' = mappings
            /\ run'[p].calls = <<>>
            /\ run'[p].syncRet = Null
            /\ GoesOn(p)]_vars

\* C26 witness: item 1 of a library had no progress and was skipped; the pass
\* is at item 2 with nothing counted and no book stored.
C26_Witness ==
    \E p \in PassSlots :
        /\ run[p].fault = "unavailable"
        /\ run[p].pc = "progress"
        /\ run[p].ii = 2
        /\ run[p].synced = 0
        /\ run[p].failed = 0
        /\ books = <<>>

\* The SyncJob row of the pass in coroutine p.
JobOf(p) == jobs[run[p].job]

\* C27: after each item the pass has processed (synced or failed), the stored
\* processed_items of its SyncJob is synced_count + failed_count so far, and
\* a pass that has completed has its job completed with processed_items equal
\* to the synced_count + failed_count it returned.
C27_ProcessedIsSyncedPlusFailed ==
    \A p \in PassSlots :
        /\ (run[p].pc \in Active /\ run[p].pc # "libraries")
              => /\ JobOf(p).processed_items = run[p].synced + run[p].failed
                 /\ JobOf(p).status = "running"
        /\ (run[p].pc = "done" /\ JobOf(p).status # "failed")
              => /\ JobOf(p).status = "completed"
                 /\ JobOf(p).processed_items
                       = run[p].ret.synced_count + run[p].ret.failed_count
                 /\ run[p].ret.synced_count = run[p].synced
                 /\ run[p].ret.failed_count = run[p].failed

\* C27 witness: the pass has processed one item as synced and one as failed
\* and is done; its job is completed with processed_items = 2.
C27_Witness ==
    \E p \in PassSlots :
        /\ run[p].pc = "done"
        /\ run[p].ret.synced_count = 1
        /\ run[p].ret.failed_count = 1
        /\ JobOf(p).status = "completed"
        /\ JobOf(p).processed_items = 2

\* The pass is between two items with one item processed and stored as such.
C27_AfterOneItem ==
    \E p \in PassSlots :
        /\ run[p].pc = "progress"
        /\ run[p].ii = 2
        /\ run[p].synced + run[p].failed = 1
        /\ JobOf(p).processed_items = 1
        /\ JobOf(p).status = "running"

\* C28: in every reachable state a SyncJob carries an error_message only if
\* its status is failed: a running or completed job has none, even when the
\* pass recorded errors of items or libraries.
C28_MessageOnlyOnFailed ==
    \A j \in DOMAIN jobs :
        jobs[j].error_message # Null => jobs[j].status = "failed"

\* C28 witness: a pass that recorded the error of an item and the error of a
\* library has completed, and its job carries no error message.
C28_Witness ==
    \E p \in PassSlots :
        /\ run[p].pc = "done"
        /\ "book" \in Range(run[p].ret.errors)
        /\ "library" \in Range(run[p].ret.errors)
        /\ JobOf(p).status = "completed"
        /\ JobOf(p).error_message = Null

\* The pass has counted more items (synced or failed) than there are item
\* ids, so one id was observed again.
ObservedAgain(p) == run[p].synced + run[p].failed > Cardinality(ItemIds)

\* C29: there is at most one AudioBook per audiobookshelf_id, however often
\* passes observe the item, and no step of a pass or of the matcher removes
\* a row of audiobooks or of book_mappings, or gives it to another item, book
\* or platform.
C29_OneRowPerItemNoneDeleted ==
    /\ [](\A i, k \in DOMAIN books :
             books[i].audiobookshelf_id = books[k].audiobookshelf_id => i = k)
    /\ [][/\ Len(books') >= Len(books)
          /\ \A i \in DOMAIN books :
                books'[i].audiobookshelf_id = books[i].audiobookshelf_id
          /\ Len(mappings') >= Len(mappings)
          /\ \A i \in DOMAIN mappings :
                /\ mappings'[i].audiobook_id = mappings[i].audiobook_id
                /\ mappings'[i].platform = mappings[i].platform]_vars

\* C29 witness: a pass has processed more items than there are item ids (an
\* item shows in both libraries) and the store holds one row per id.
C29_Witness ==
    \E p \in PassSlots :
        /\ ObservedAgain(p)
        /\ Len(books) = Cardinality(ItemIds)

\* No pass is under way.
NoPassRunning == \A p \in PassSlots : run[p].pc \notin Active

\* C30: after each pass, every stored AudioBook with total_duration > 0 has
\* 0 <= current_progress <= total_duration, whatever progress and duration
\* the Audiobookshelf client reported.
C30_ProgressWithinDuration ==
    NoPassRunning =>
        \A i \in DOMAIN books :
            books[i].total_duration > 0 =>
                /\ 0 <= books[i].current_progress
                /\ books[i].current_progress <= books[i].total_duration

\* C30 witness: a pass has ended and left a book whose stored progress is
\* beyond its stored duration.
C30_Witness ==
    /\ NoPassRunning
    /\ \E p \in PassSlots : run[p].pc = "done" /\ JobOf(p).status = "completed"
    /\ \E i \in DOMAIN books :
          /\ books[i].total_duration > 0
          /\ books[i].current_progress > books[i].total_duration

\* The stored row holds what get_progress answered for the item of coroutine p,
\* written by the pass of p.
StoredAsReported(p) ==
    /\ run[p].data.kind = "data"
    /\ SyncedBook(p).audiobookshelf_id = run[p].items[run[p].ii]
    /\ SyncedBook(p).current_progress = run[p].data.progress
    /\ SyncedBook(p).is_finished = run[p].data.isFinished
    /\ SyncedBook(p).total_duration = run[p].data.duration
    /\ SyncedBook(p).last_synced_at = UtcNow(run[p].job, "run_periodic_sync")

\* C31: while a platform update call for an item is in flight, and so before
\* any such call was made, the store holds the progress, finished flag and
\* duration that get_progress answered for the item: a pass that stops there
\* leaves the update of the AudioBook stored.
C31_StoredBeforePlatformCall ==
    \A p \in PassSlots : run[p].pc = "update" => StoredAsReported(p)

\* C31 witness: the first platform update call for an item is in flight and
\* the row of its book holds the progress reported in this pass.
C31_Witness ==
    \E p \in PassSlots :
        /\ run[p].pc = "update"
        /\ run[p].calls = <<>>
        /\ StoredAsReported(p)
        /\ SyncedBook(p).current_progress = 50

\* match_book_on_platform has returned to its caller after a fault of the
\* ISBN lookup, or of the search.
IsbnFaulted(t) == Resolved(t) /\ match[t].isbnAnswer = "raise"
SearchFaulted(t) == Resolved(t) /\ match[t].searchAnswer.kind = "raise"

\* The rows match_all_books t has created for the pair of its k-th try.
RowsForTry(t, k) ==
    {i \in CreatedBy(t) :
        /\ mappings[i].audiobook_id = match[t].tried[k].book
        /\ mappings[i].platform = match[t].tried[k].platform}

\* A fault of an adapter never ends an operation of the matcher by a raise,
\* and match_all_books goes on to the pairs that are left.
FaultsDoNotStop ==
    \A t \in MatcherSlots :
        /\ match[t].pc # "raised"
        /\ (match[t].op = "match_all" /\ match[t].pc = "done")
              => \A b \in 1..match[t].n : \A pl \in Platforms :
                    \/ <<b, pl>> \in TriedPairs(t)
                    \/ ExistingMappings(mappings, b, pl) # {}

\* C32 as claimed: a fault of the ISBN lookup or of the search makes
\* match_book_on_platform return no match instead of raising, no mapping is
\* created for the pair, and match_all_books goes on with the other pairs.
C32_Original ==
    /\ FaultsDoNotStop
    /\ \A t \in MatcherSlots :
          /\ (IsbnFaulted(t) \/ SearchFaulted(t)) => match[t].ret = None
          /\ \A k \in DOMAIN match[t].tried :
                (match[t].tried[k].isbnFault \/ match[t].tried[k].searchFault)
                   => /\ match[t].tried[k].found = None
                      /\ RowsForTry(t, k) = {}

\* C32 amended: a fault of the search makes match_book_on_platform return no
\* match, and no mapping is created for the pair.  A fault of the ISBN lookup
\* is taken as no ISBN result: the search is asked, and what it gives is
\* returned (a match at or above the threshold, saved by match_all_books, or
\* no match).  No fault is raised to the caller, and match_all_books goes on
\* with the other pairs.
C32_FaultIsNoIsbnResult ==
    /\ FaultsDoNotStop
    /\ \A t \in MatcherSlots :
          /\ SearchFaulted(t) => match[t].ret = None
          /\ IsbnFaulted(t) =>
                /\ match[t].searchAnswer # NotAsked
                /\ match[t].ret = MatchByFuzzy(match[t].searchAnswer)
          /\ \A k \in DOMAIN match[t].tried :
                /\ match[t].tried[k].searchFault
                      => /\ match[t].tried[k].found = None
                         /\ RowsForTry(t, k) = {}
                /\ (match[t].tried[k].isbnFault /\ match[t].tried[k].found # None)
                      => /\ match[t].tried[k].found.confidence >= MIN_FUZZY_SCORE
                         /\ Cardinality(RowsForTry(t, k)) = 1

\* C32 witness: in one match_all_books the ISBN lookup raised and the search
\* gave a match, which was saved; for a later pair the search raised, no row
\* was created, and the run has ended.
C32_Witness ==
    \E t \in MatcherSlots :
        /\ match[t].op = "match_all"
        /\ match[t].pc = "done"
        /\ \E k \in DOMAIN match[t].tried :
              /\ match[t].tried[k].isbnFault
              /\ match[t].tried[k].found # None
              /\ \E j \in DOMAIN match[t].tried :
                    /\ j > k
                    /\ match[t].tried[j].searchFault
                    /\ RowsForTry(t, j) = {}

\* C33: within one pass the stored processed_items of its SyncJob never
\* decreases from one update to the next, the final update that marks the
\* job completed or failed included.
C33_ProcessedNeverDecreases ==
    [][\A j \in DOMAIN jobs :
         jobs'[j].processed_items >= jobs[j].processed_items]_vars

\* C33 witness: a pass that had counted an item has ended through the handler
\* of the outer try, and its job is failed with processed_items = 0.
C33_Witness ==
    \E p \in PassSlots :
        /\ run[p].pc = "done"
        /\ run[p].synced + run[p].failed > 0
        /\ JobOf(p).status = "failed"
        /\ JobOf(p).processed_items = 0

\* C34: when two match_all_books runs interleave at the calls of the adapters
\* (both check for an existing mapping before either saves), the store still
\* holds at most one BookMapping row for each pair of book and platform.
C34_OneRowPerPair ==
    \A b \in DOMAIN books : \A pl \in Platforms :
        Cardinality(ExistingMappings(mappings, b, pl)) <= 1

\* C34 witness: two match_all_books runs that were in flight together have
\* ended, each has counted a match on hardcovers for the one book, and the
\* store holds two rows for that pair.
C34_Witness ==
    /\ \A t \in MatcherSlots :
          /\ match[t].op = "match_all"
          /\ match[t].pc = "done"
          /\ match[t].results["hardcovers"] = 1
    /\ Len(books) = 1
    /\ Cardinality(ExistingMappings(mappings, 1, "hardcovers")) = 2

\* sync_book_progress has returned false to coroutine p for a book without
\* mappings.
UnmappedBookFailed(p) ==
    /\ run[p].syncRet = "false"
    /\ run[p].book # 0
    /\ run[p].maps = <<>>

\* C35: run_periodic_sync stores last_synced_at for every item whose progress
\* is available before it calls sync_book_progress, so a book without
\* mappings, although counted as failed, has last_synced_at set by the pass,
\* and get_sync_stats counts every stored book in synced_books, none in
\* pending_books.
C35_UnmappedBookIsStamped ==
    /\ \A p \in PassSlots :
          /\ (run[p].pc = "update" \/ run[p].syncRet # Null)
                => SyncedBook(p).last_synced_at # NoTime
          /\ UnmappedBookFailed(p)
                => SyncedBook(p).last_synced_at
                      = UtcNow(run[p].job, "run_periodic_sync")
    /\ GetSyncStats.synced_books = GetSyncStats.total_books
    /\ GetSyncStats.pending_books = 0

\* C35 witness: a pass has ended after it counted as failed a book it created
\* and found without mappings; get_sync_stats counts the book as synced.
C35_Witness ==
    \E p \in PassSlots :
        /\ run[p].pc = "done"
        /\ UnmappedBookFailed(p)
        /\ run[p].ret.failed_count >= 1
        /\ SyncedBook(p).last_synced_at = UtcNow(run[p].job, "run_periodic_sync")
        /\ GetSyncStats.synced_books >= 1
        /\ GetSyncStats.pending_books = 0

\* C36: when the scoring of one candidate raises, the heuristic match returns
\* no match; no candidate is returned, not even one that scored at or above
\* the threshold earlier in the list, and match_all_books creates no mapping
\* for the pair.
C36_ScoringFaultIsNoMatch ==
    \A t \in MatcherSlots :
        /\ (Searched(t) /\ ScoreFault(match[t].searchAnswer))
              => match[t].ret = None
        /\ \A k \in DOMAIN match[t].tried :
              match[t].tried[k].scoreFault
                 => /\ match[t].tried[k].found = None
                    /\ RowsForTry(t, k) = {}

\* C36 witness: the search answered a candidate scoring 92 followed by one
\* whose scoring raises, and match_book_on_platform returned no match.
C36_Witness ==
    \E t \in MatcherSlots :
        /\ Searched(t)
        /\ Len(match[t].searchAnswer.results) = 2
        /\ match[t].searchAnswer.results[1].score >= MIN_FUZZY_SCORE
        /\ ScoringRaises(match[t].searchAnswer.results[2])
        /\ match[t].ret = None

\* The pass has returned the result of worker.py 277-282, the one that
\* carries total_books.
ReturnedTotals(p) ==
    /\ run[p].pc = "done"
    /\ run[p].libs # <<>>
    /\ JobOf(p).status = "completed"

\* The counters of pass p over one step of the pass: each grows by at most
\* one, never both, and only when the pass leaves the item it is at.
CountsOncePerItem(p) ==
    LET ds == run'[p].synced - run[p].synced
        df == run'[p].failed - run[p].failed
    IN  /\ ds \in {0, 1}
        /\ df \in {0, 1}
        /\ ds + df <= 1
        /\ ds + df = 1
              => /\ run[p].pc \in {"progress", "update"}
                 /\ run'[p].pc # "update"
                 /\ run'[p].pc = "progress"
                       => /\ run'[p].li = run[p].li
                          /\ run'[p].ii = run[p].ii + 1

\* C37: in the result of a pass that completes, synced_count + failed_count
\* is at most total_books, and each enumerated item is counted in at most one
\* of synced_count and failed_count, at most once.
C37_CountsWithinTotal ==
    /\ [](\A p \in PassSlots :
            /\ run[p].synced + run[p].failed <= run[p].total
            /\ ReturnedTotals(p)
                  => run[p].ret.synced_count + run[p].ret.failed_count
                        <= run[p].ret.total_books)
    /\ [][\A p \in PassSlots :
            (run[p].pc \in Active /\ run'[p].job = run[p].job)
                => CountsOncePerItem(p)]_vars

\* C37 witness: a pass has returned total_books = 2 with one item synced and
\* none failed, the other item having no progress.
C37_Witness ==
    \E p \in PassSlots :
        /\ ReturnedTotals(p)
        /\ run[p].ret.total_books = 2
        /\ run[p].ret.synced_count = 1
        /\ run[p].ret.failed_count = 0

\* The book of the sync has mappings, all of them on storygraph.
OnlyOnStoryGraph(r) ==
    /\ r.maps # <<>>
    /\ \A k \in DOMAIN r.maps : mappings[r.maps[k]].platform = "storygraph"

====
